---- MODULE Spec2Model ----
(***************************************************************************)
(* A model of backend/scripts/generate_test_data.py: the synthetic client  *)
(* and watchlist datasets, the anchor record shared by both, and the CSV   *)
(* files they are written to.                                              *)
(*                                                                         *)
(* Text is modelled as a sequence of one-character strings, so that the    *)
(* CSV writer and a CSV reader work on characters.  An integer u stands    *)
(* for the float u / RandResolution that random.random() returns.          *)
(***************************************************************************)
EXTENDS Integers, Sequences, FiniteSets, TLC

\* The pool of given names: 48 entries, "James" first and "Edward" last.
FIRST_NAMES ==
  << <<"J","a","m","e","s">>, <<"M","a","r","y">>, <<"J","o","h","n">>,
     <<"P","a","t","r","i","c","i","a">>, <<"R","o","b","e","r","t">>,
     <<"J","e","n","n","i","f","e","r">>, <<"M","i","c","h","a","e","l">>,
     <<"L","i","n","d","a">>, <<"W","i","l","l","i","a","m">>, <<"B","a","r","b","a","r","a">>,
     <<"D","a","v","i","d">>, <<"E","l","i","z","a","b","e","t","h">>,
     <<"R","i","c","h","a","r","d">>, <<"S","u","s","a","n">>, <<"J","o","s","e","p","h">>,
     <<"J","e","s","s","i","c","a">>, <<"T","h","o","m","a","s">>, <<"S","a","r","a","h">>,
     <<"C","h","r","i","s","t","o","p","h","e","r">>, <<"K","a","r","e","n">>,
     <<"D","a","n","i","e","l">>, <<"N","a","n","c","y">>, <<"M","a","t","t","h","e","w">>,
     <<"L","i","s","a">>, <<"A","n","t","h","o","n","y">>, <<"B","e","t","t","y">>,
     <<"M","a","r","k">>, <<"M","a","r","g","a","r","e","t">>, <<"D","o","n","a","l","d">>,
     <<"S","a","n","d","r","a">>, <<"S","t","e","v","e","n">>, <<"A","s","h","l","e","y">>,
     <<"P","a","u","l">>, <<"K","i","m","b","e","r","l","y">>, <<"A","n","d","r","e","w">>,
     <<"E","m","i","l","y">>, <<"J","o","s","h","u","a">>, <<"D","o","n","n","a">>,
     <<"K","e","n","n","e","t","h">>, <<"M","i","c","h","e","l","l","e">>,
     <<"C","h","r","i","s","t","i","n","a">>, <<"G","e","o","r","g","e">>,
     <<"L","a","u","r","a">>, <<"K","e","v","i","n">>, <<"C","a","r","o","l">>,
     <<"B","r","i","a","n">>, <<"A","m","a","n","d","a">>, <<"E","d","w","a","r","d">> >>

\* The pool of family names: 55 entries, "Smith" first and "Walters" last.
LAST_NAMES ==
  << <<"S","m","i","t","h">>, <<"J","o","h","n","s","o","n">>,
     <<"W","i","l","l","i","a","m","s">>, <<"B","r","o","w","n">>, <<"J","o","n","e","s">>,
     <<"G","a","r","c","i","a">>, <<"M","i","l","l","e","r">>, <<"D","a","v","i","s">>,
     <<"R","o","d","r","i","g","u","e","z">>, <<"M","a","r","t","i","n","e","z">>,
     <<"H","e","r","n","a","n","d","e","z">>, <<"L","o","p","e","z">>,
     <<"G","o","n","z","a","l","e","z">>, <<"W","i","l","s","o","n">>,
     <<"A","n","d","e","r","s","o","n">>, <<"T","h","o","m","a","s">>,
     <<"T","a","y","l","o","r">>, <<"M","o","o","r","e">>, <<"J","a","c","k","s","o","n">>,
     <<"M","a","r","t","i","n">>, <<"L","e","e">>, <<"P","e","r","e","z">>,
     <<"T","h","o","m","p","s","o","n">>, <<"W","h","i","t","e">>, <<"H","a","r","r","i","s">>,
     <<"S","a","n","c","h","e","z">>, <<"C","l","a","r","k">>, <<"R","a","m","i","r","e","z">>,
     <<"L","e","w","i","s">>, <<"R","o","b","i","n","s","o","n">>, <<"W","a","l","k","e","r">>,
     <<"Y","o","u","n","g">>, <<"A","l","l","e","n">>, <<"K","i","n","g">>,
     <<"W","r","i","g","h","t">>, <<"S","c","o","t","t">>, <<"T","o","r","r","e","s">>,
     <<"N","g","u","y","e","n">>, <<"H","i","l","l">>, <<"F","l","o","r","e","s">>,
     <<"G","r","e","e","n">>, <<"A","d","a","m","s">>, <<"N","e","l","s","o","n">>,
     <<"B","a","k","e","r">>, <<"H","a","l","l">>, <<"R","i","v","e","r","a">>,
     <<"C","a","m","p","b","e","l","l">>, <<"M","i","t","c","h","e","l","l">>,
     <<"C","a","r","t","e","r">>, <<"R","o","b","e","r","t","s">>, <<"V","a","r","g","a","s">>,
     <<"H","a","r","p","e","r">>, <<"N","e","w","m","a","n">>, <<"B","l","a","k","e">>,
     <<"W","a","l","t","e","r","s">> >>

\* The pool of country codes: 50 entries, "US" first and "EG" last.
COUNTRIES ==
  << <<"U","S">>, <<"U","K">>, <<"C","A">>, <<"A","U">>, <<"D","E">>, <<"F","R">>, <<"I","T">>,
     <<"E","S">>, <<"N","L">>, <<"S","E">>, <<"N","O">>, <<"D","K">>, <<"F","I">>, <<"I","E">>,
     <<"N","Z">>, <<"C","H">>, <<"A","T">>, <<"B","E">>, <<"P","T">>, <<"G","R">>, <<"P","L">>,
     <<"C","Z">>, <<"H","U">>, <<"R","O">>, <<"B","G">>, <<"H","R">>, <<"S","I">>, <<"S","K">>,
     <<"L","T">>, <<"L","V">>, <<"E","E">>, <<"J","P">>, <<"K","R">>, <<"C","N">>, <<"I","N">>,
     <<"S","G">>, <<"M","Y">>, <<"T","H">>, <<"P","H">>, <<"I","D">>, <<"V","N">>, <<"B","R">>,
     <<"M","X">>, <<"A","R">>, <<"C","L">>, <<"C","O">>, <<"P","E">>, <<"V","E">>, <<"Z","A">>,
     <<"E","G">> >>

\* The pool of sanction program labels: 8 entries, "OFAC SDN" first and "PEP List" last.
PROGRAMS ==
  << <<"O","F","A","C"," ","S","D","N">>, <<"E","U"," ","S","a","n","c","t","i","o","n","s">>,
     <<"U","N"," ","S","a","n","c","t","i","o","n","s">>,
     <<"D","F","A","T"," ","S","a","n","c","t","i","o","n","s">>,
     <<"H","M","T"," ","S","a","n","c","t","i","o","n","s">>,
     <<"S","E","C","O"," ","S","a","n","c","t","i","o","n","s">>,
     <<"F","I","N","M","A"," ","W","a","t","c","h","l","i","s","t">>,
     <<"P","E","P"," ","L","i","s","t">> >>

----------------------------------------------------------------------------
(* Bounds of the model *)

\* The largest record count a call of generate_customers or
\* generate_sanctions is given.
MaxCount == 2

\* Record counts down to -NegCount are given.
NegCount == 2

\* The record count the entry point asks for (1000 in the script).
MainCount == 2

\* random.random() is modelled as u / RandResolution, u in 0..RandResolution-1.
RandResolution == 10

----------------------------------------------------------------------------
(* Program constants *)

\* random_date's default start_year and end_year
START_YEAR == 1940
END_YEAR == 2005

\* "if random.random() < 0.1": the alias probability is 1 / ALIAS_ODDS
ALIAS_ODDS == 10

CLIENT_FILE == "client_data_large.csv"
SERVER_FILE == "server_data_large.csv"

CUSTOMER_FIELDS == << "name", "date_of_birth", "country" >>
SANCTION_FIELDS == << "name", "date_of_birth", "country", "program", "aliases" >>

\* The text of a field name, as the header line carries it.
FieldText(f) ==
  CASE f = "name" -> <<"n","a","m","e">>
    [] f = "date_of_birth" -> <<"d","a","t","e","_","o","f","_","b","i","r","t","h">>
    [] f = "country" -> <<"c","o","u","n","t","r","y">>
    [] f = "program" -> <<"p","r","o","g","r","a","m">>
    [] f = "aliases" -> <<"a","l","i","a","s","e","s">>

\* The record appended first by generate_customers when include_christina.
CHRISTINA_CUSTOMER ==
  [ name |-> <<"C","h","r","i","s","t","i","n","a"," ","V","a","r","g","a","s">>,
    date_of_birth |-> <<"1","9","9","5","-","0","7","-","2","3">>,
    country |-> <<"A","U">> ]

\* The record appended first by generate_sanctions when include_christina.
CHRISTINA_SANCTION ==
  [ name |-> <<"C","h","r","i","s","t","i","n","a"," ","V","a","r","g","a","s">>,
    date_of_birth |-> <<"1","9","9","5","-","0","7","-","2","3">>,
    country |-> <<"A","U">>,
    program |-> <<"O","F","A","C"," ","S","D","N">>,
    aliases |-> << >> ]

----------------------------------------------------------------------------
(* datetime: the proleptic Gregorian calendar, as datetime(y, m, d),       *)
(* datetime - datetime, datetime + timedelta(days) and strftime compute.   *)

IsLeap(y) == y % 4 = 0 /\ (y % 100 # 0 \/ y % 400 = 0)

\* Days before 1 January of year y, day 1 being 0001-01-01.
DaysBeforeYear(y) ==
  LET p == y - 1 IN p * 365 + (p \div 4) - (p \div 100) + (p \div 400)

DaysInMonth(y, m) ==
  IF m = 2 /\ IsLeap(y) THEN 29
  ELSE << 31, 28, 31, 30, 31, 30, 31, 31, 30, 31, 30, 31 >>[m]

\* Days of year y before the first day of month m.
DaysBeforeMonth(y, m) ==
  << 0, 31, 59, 90, 120, 151, 181, 212, 243, 273, 304, 334 >>[m]
    + (IF m > 2 /\ IsLeap(y) THEN 1 ELSE 0)

\* The ordinal of a date.
Ymd2Ord(y, m, d) == DaysBeforeYear(y) + DaysBeforeMonth(y, m) + d

\* The date << year, month, day >> of an ordinal.
Ord2Ymd(ordinal) ==
  LET n0 == ordinal - 1
      di400 == DaysBeforeYear(401)
      di100 == DaysBeforeYear(101)
      di4 == DaysBeforeYear(5)
      n400 == n0 \div di400
      r400 == n0 % di400
      n100 == r400 \div di100
      r100 == r400 % di100
      n4 == r100 \div di4
      r4 == r100 % di4
      n1 == r4 \div 365
      n == r4 % 365
      year == n400 * 400 + 1 + n100 * 100 + n4 * 4 + n1
      leapyear == n1 = 3 /\ (n4 # 24 \/ n100 = 3)
      guess == (n + 50) \div 32
      before(m) ==
        << 0, 31, 59, 90, 120, 151, 181, 212, 243, 273, 304, 334 >>[m]
          + (IF m > 2 /\ leapyear THEN 1 ELSE 0)
      month == IF before(guess) > n THEN guess - 1 ELSE guess
  IN  IF n1 = 4 \/ n100 = 4
        THEN << year - 1, 12, 31 >>
        ELSE << year, month, n - before(month) + 1 >>

Digit(d) == << "0", "1", "2", "3", "4", "5", "6", "7", "8", "9" >>[d + 1]

\* n in decimal, zero-padded to width characters.
RECURSIVE Pad(_, _)
Pad(n, width) ==
  IF width = 0 THEN << >>
  ELSE Append(Pad(n \div 10, width - 1), Digit(n % 10))

\* date.strftime("%Y-%m-%d")
Strftime(ymd) ==
  Pad(ymd[1], 4) \o <<"-">> \o Pad(ymd[2], 2) \o <<"-">> \o Pad(ymd[3], 2)

\* A slip: end taken as 1 January of the year after end_year.
DeltaDaysToNewYear(start_year, end_year) ==
  Ymd2Ord(end_year + 1, 1, 1) - Ymd2Ord(start_year, 1, 1)

\* delta.days: the days from 1 January of start_year to 31 December of end_year.
DeltaDays(start_year, end_year) ==
  Ymd2Ord(end_year, 12, 31) - Ymd2Ord(start_year, 1, 1)

\* The offsets random.randint(0, delta.days) draws from.
RandomDays(start_year, end_year) == 0 .. DeltaDays(start_year, end_year)

\* random_date, once random.randint has drawn random_days.
random_date(start_year, end_year, random_days) ==
  Strftime(Ord2Ymd(Ymd2Ord(start_year, 1, 1) + random_days))

----------------------------------------------------------------------------
(* csv: the excel dialect csv.DictWriter writes and a csv reader parses.   *)

COMMA == ","
QUOTE == "\""
CR == "\r"
LF == "\n"

\* QUOTE_MINIMAL: a field is quoted when it holds the delimiter, the quote
\* character or a character of the line terminator.
NeedsQuote(field) ==
  \E k \in 1..Len(field) : field[k] \in { COMMA, QUOTE, CR, LF }

\* The characters of a quoted field, each quote character doubled.
RECURSIVE Doubled(_)
Doubled(field) ==
  IF field = << >> THEN << >>
  ELSE (IF Head(field) = QUOTE THEN << QUOTE, QUOTE >> ELSE << Head(field) >>)
         \o Doubled(Tail(field))

CsvField(field) ==
  IF NeedsQuote(field) THEN << QUOTE >> \o Doubled(field) \o << QUOTE >>
  ELSE field

RECURSIVE CsvJoin(_)
CsvJoin(values) ==
  IF values = << >> THEN << >>
  ELSE IF Len(values) = 1 THEN CsvField(values[1])
  ELSE CsvField(values[1]) \o << COMMA >> \o CsvJoin(Tail(values))

\* writer.writerow: the fields joined by commas, then "\r\n"; a row of one
\* empty field is written as a pair of quotes.
CsvRow(values) ==
  (IF values = << << >> >> THEN << QUOTE, QUOTE >> ELSE CsvJoin(values))
    \o << CR, LF >>

\* DictWriter._dict_to_list: the values of rowdict in the order of
\* fieldnames, restval "" for a missing key.
DictToList(rowdict, fieldnames) ==
  [ k \in 1..Len(fieldnames) |->
      IF fieldnames[k] \in DOMAIN rowdict THEN rowdict[fieldnames[k]] ELSE << >> ]

\* writer.writeheader()
CsvHeader(fieldnames) ==
  CsvRow([ k \in 1..Len(fieldnames) |-> FieldText(fieldnames[k]) ])

\* writer.writerows(data)
RECURSIVE CsvRows(_, _)
CsvRows(data, fieldnames) ==
  IF data = << >> THEN << >>
  ELSE CsvRow(DictToList(Head(data), fieldnames)) \o CsvRows(Tail(data), fieldnames)

\* A slip: the file opened in mode 'a', which keeps what it held.
CsvTextAppended(old, data, fieldnames) ==
  old \o CsvHeader(fieldnames) \o CsvRows(data, fieldnames)

\* The text write_csv leaves in a file that held the text old (none if there
\* was no file): the mode 'w' truncates it, then the header and the rows are
\* written.
CsvText(old, data, fieldnames) ==
  CsvHeader(fieldnames) \o CsvRows(data, fieldnames)

----------------------------------------------------------------------------
(* The random source *)

\* The positions of a pool that random.choice draws in the model: the first
\* and the last of FIRST_NAMES and of COUNTRIES, the last of LAST_NAMES and
\* of PROGRAMS.
Sample(pool) ==
  IF pool \in { LAST_NAMES, PROGRAMS } THEN { Len(pool) } ELSE { 1, Len(pool) }

\* The day offsets random.randint draws while a collection is generated:
\* the two ends of the range.
DaySample == { 0, DeltaDays(START_YEAR, END_YEAR) }

\* A slip: "<=" for "<".
AliasDrawnInclusive(u) == u * ALIAS_ODDS <= RandResolution

\* "random.random() < 0.1" for the draw u / RandResolution.
AliasDrawn(u) == u * ALIAS_ODDS < RandResolution

\* The draws of random.random() in the model: the least and the greatest,
\* and the two around the alias probability.
UniformSample ==
  LET t == (RandResolution + ALIAS_ODDS - 1) \div ALIAS_ODDS
  IN  { 0, t - 1, t, RandResolution - 1 }

\* f"{random.choice(FIRST_NAMES)} {random.choice(LAST_NAMES)}"
FullName(g, f) == FIRST_NAMES[g] \o << " " >> \o LAST_NAMES[f]

----------------------------------------------------------------------------
(* The state *)

VARIABLES
  script,             \* "call": one function is called; "main": the entry point runs
  pc,                 \* "call", "loop", "returned", "written", "done"
  fn,                 \* the function called
  count,              \* its argument count
  include_christina,  \* its argument include_christina
  customers,          \* the list generate_customers builds and returns
  sanctions,          \* the list generate_sanctions builds and returns
  i,                  \* the loop variable: the iterations done
  draws,              \* the draws taken from the random source by the call
  rand,               \* the last random.random() of the loop, -1 if none
  random_days,        \* the last random.randint of random_date called alone, -1 if none
  date,               \* what random_date called alone returned
  files               \* of each path, whether a file exists there and its text

vars == << script, pc, fn, count, include_christina, customers, sanctions, i,
           draws, rand, random_days, date, files >>

\* No file at a path.
NoFile == [ exists |-> FALSE, text |-> << >> ]

\* The text a file written by an earlier run may hold.
STALE_TEXT ==
  << "n","a","m","e",",","c","i","t","y", CR, LF, "o","l","d",",","x", CR, LF,
     "o","l","d","e","r",",","y", CR, LF, "o","l","d","e","s","t",",","z", CR, LF,
     "a",",","b", CR, LF >>

Counts == (0 - NegCount) .. MaxCount

\* A slip: range(count), the anchor added on top of count records.
IterationsOnTop(n, christina) == n

\* range(count - (1 if include_christina else 0)): the number of iterations
Iterations(n, christina) == n - (IF christina THEN 1 ELSE 0)

Init ==
  /\ script = "call"
  /\ pc = "call"
  /\ fn \in { "random_date", "generate_customers", "generate_sanctions" }
  /\ count \in (IF fn = "random_date" THEN { 0 } ELSE Counts)
  /\ include_christina \in (IF fn = "random_date" THEN { FALSE } ELSE BOOLEAN)
  /\ customers = << >>
  /\ sanctions = << >>
  /\ i = 0
  /\ draws = 0
  /\ rand = -1
  /\ random_days = -1
  /\ date = << >>
  /\ \E old \in { NoFile, [ exists |-> TRUE, text |-> STALE_TEXT ] } :
       files = [ f \in { CLIENT_FILE, SERVER_FILE } |-> old ]

\* The entry point: generate_customers(1000, include_christina=True) first.
InitMain ==
  /\ script = "main"
  /\ pc = "call"
  /\ fn = "generate_customers"
  /\ count = MainCount
  /\ include_christina = TRUE
  /\ customers = << >>
  /\ sanctions = << >>
  /\ i = 0
  /\ draws = 0
  /\ rand = -1
  /\ random_days = -1
  /\ date = << >>
  /\ \E old \in { NoFile, [ exists |-> TRUE, text |-> STALE_TEXT ] } :
       files = [ f \in { CLIENT_FILE, SERVER_FILE } |-> old ]

----------------------------------------------------------------------------
(* The operations *)

\* random_date(), called alone with its default years.
RandomDate ==
  /\ pc = "call" /\ fn = "random_date"
  /\ \E d \in RandomDays(START_YEAR, END_YEAR) :
       /\ random_days' = d
       /\ date' = random_date(START_YEAR, END_YEAR, d)
  /\ draws' = draws + 1
  /\ pc' = "returned"
  /\ UNCHANGED << script, fn, count, include_christina, customers, sanctions, i,
                  rand, files >>

\* A slip: the anchor appended whatever include_christina says.
CustomersStartAlways(christina) == Append(<< >>, CHRISTINA_CUSTOMER)

\* generate_customers, up to its loop: the empty list, and Christina Vargas
\* appended if requested.
CustomersStart(christina) ==
  IF christina THEN Append(<< >>, CHRISTINA_CUSTOMER) ELSE << >>

GenerateCustomersBegin ==
  /\ pc = "call" /\ fn = "generate_customers"
  /\ customers' = CustomersStart(include_christina)
  /\ i' = 0
  /\ draws' = 0
  /\ rand' = -1
  /\ pc' = "loop"
  /\ UNCHANGED << script, fn, count, include_christina, sanctions, random_days,
                  date, files >>

\* A slip: customers.insert(0, {...}) for customers.append({...}).
CustomersInsertFirst(list, name, dob, country) ==
  << [ name |-> name, date_of_birth |-> dob, country |-> country ] >> \o list

\* customers.append({...}) of the loop body
CustomersAppend(list, name, dob, country) ==
  Append(list, [ name |-> name, date_of_birth |-> dob, country |-> country ])

\* One iteration of generate_customers' loop.
GenerateCustomersLoop ==
  /\ pc = "loop" /\ fn = "generate_customers"
  /\ i < Iterations(count, include_christina)
  /\ \E g \in Sample(FIRST_NAMES), f \in Sample(LAST_NAMES), d \in DaySample,
        c \in Sample(COUNTRIES) :
       customers' = CustomersAppend(customers, FullName(g, f),
                                    random_date(START_YEAR, END_YEAR, d), COUNTRIES[c])
  /\ draws' = draws + 4
  /\ i' = i + 1
  /\ UNCHANGED << script, pc, fn, count, include_christina, sanctions, rand,
                  random_days, date, files >>

\* generate_customers: the loop is over, customers is returned.
GenerateCustomersReturn ==
  /\ pc = "loop" /\ fn = "generate_customers"
  /\ ~ (i < Iterations(count, include_christina))
  /\ pc' = "returned"
  /\ UNCHANGED << script, fn, count, include_christina, customers, sanctions, i,
                  draws, rand, random_days, date, files >>

\* A slip: generate_sanctions without its anchor.
SanctionsStartUnanchored(christina) == << >>

\* generate_sanctions, up to its loop: the empty list, and Christina Vargas
\* appended if requested.
SanctionsStart(christina) ==
  IF christina THEN Append(<< >>, CHRISTINA_SANCTION) ELSE << >>

GenerateSanctionsBegin ==
  /\ pc = "call" /\ fn = "generate_sanctions"
  /\ sanctions' = SanctionsStart(include_christina)
  /\ i' = 0
  /\ draws' = 0
  /\ rand' = -1
  /\ pc' = "loop"
  /\ UNCHANGED << script, fn, count, include_christina, customers, random_days,
                  date, files >>

\* aliases = ""; if random.random() < 0.1: aliases = alias_name
Aliases(u, alias_name) == IF AliasDrawn(u) THEN alias_name ELSE << >>

\* A slip: country and program taken one for the other.
SanctionsAppendSwapped(list, name, dob, country, program, aliases) ==
  Append(list, [ name |-> name, date_of_birth |-> dob, country |-> program,
                 program |-> country, aliases |-> aliases ])

\* sanctions.append({...}) of the loop body
SanctionsAppend(list, name, dob, country, program, aliases) ==
  Append(list, [ name |-> name, date_of_birth |-> dob, country |-> country,
                 program |-> program, aliases |-> aliases ])

\* One iteration of generate_sanctions' loop. The alias name is drawn only
\* when random.random() is below 0.1.
GenerateSanctionsLoop ==
  /\ pc = "loop" /\ fn = "generate_sanctions"
  /\ i < Iterations(count, include_christina)
  /\ \E g \in Sample(FIRST_NAMES), f \in Sample(LAST_NAMES), d \in DaySample,
        c \in Sample(COUNTRIES), p \in Sample(PROGRAMS), u \in UniformSample :
       /\ rand' = u
       /\ IF AliasDrawn(u)
            THEN /\ \E ag \in Sample(FIRST_NAMES), af \in Sample(LAST_NAMES) :
                      sanctions' = SanctionsAppend(sanctions, FullName(g, f),
                                     random_date(START_YEAR, END_YEAR, d), COUNTRIES[c],
                                     PROGRAMS[p], Aliases(u, FullName(ag, af)))
                 /\ draws' = draws + 8
            ELSE /\ sanctions' = SanctionsAppend(sanctions, FullName(g, f),
                                   random_date(START_YEAR, END_YEAR, d), COUNTRIES[c],
                                   PROGRAMS[p], Aliases(u, << >>))
                 /\ draws' = draws + 6
  /\ i' = i + 1
  /\ UNCHANGED << script, pc, fn, count, include_christina, customers,
                  random_days, date, files >>

\* generate_sanctions: the loop is over, sanctions is returned.
GenerateSanctionsReturn ==
  /\ pc = "loop" /\ fn = "generate_sanctions"
  /\ ~ (i < Iterations(count, include_christina))
  /\ rand' = -1
  /\ pc' = "returned"
  /\ UNCHANGED << script, fn, count, include_christina, customers, sanctions, i,
                  draws, random_days, date, files >>

\* The file, the list and the field names the caller of fn hands to write_csv.
FileOf(f) == IF f = "generate_customers" THEN CLIENT_FILE ELSE SERVER_FILE
FieldsOf(f) == IF f = "generate_customers" THEN CUSTOMER_FIELDS ELSE SANCTION_FIELDS
DataOf(f) == IF f = "generate_customers" THEN customers ELSE sanctions

\* write_csv(filename, data, fieldnames) on the list a call returned.
WriteCsv ==
  /\ pc = "returned" /\ fn \in { "generate_customers", "generate_sanctions" }
  /\ files' = [ files EXCEPT ![FileOf(fn)] =
                  [ exists |-> TRUE, text |-> CsvText(@.text, DataOf(fn), FieldsOf(fn)) ] ]
  /\ pc' = "written"
  /\ UNCHANGED << script, fn, count, include_christina, customers, sanctions, i,
                  draws, rand, random_days, date >>

\* The entry point, the client file written: generate_sanctions(1000,
\* include_christina=True) is called.
MainCallSanctions ==
  /\ script = "main" /\ pc = "written" /\ fn = "generate_customers"
  /\ fn' = "generate_sanctions"
  /\ count' = MainCount
  /\ include_christina' = TRUE
  /\ pc' = "call"
  /\ UNCHANGED << script, customers, sanctions, i, draws, rand, random_days, date,
                  files >>

\* The entry point, both files written: the summary is printed.
MainSummary ==
  /\ script = "main" /\ pc = "written" /\ fn = "generate_sanctions"
  /\ pc' = "done"
  /\ UNCHANGED << script, fn, count, include_christina, customers, sanctions, i,
                  draws, rand, random_days, date, files >>

Next ==
  \/ RandomDate
  \/ GenerateCustomersBegin
  \/ GenerateCustomersLoop
  \/ GenerateCustomersReturn
  \/ GenerateSanctionsBegin
  \/ GenerateSanctionsLoop
  \/ GenerateSanctionsReturn
  \/ WriteCsv

Spec == Init /\ [][Next]_vars

NextMain ==
  \/ GenerateCustomersBegin
  \/ GenerateCustomersLoop
  \/ GenerateCustomersReturn
  \/ GenerateSanctionsBegin
  \/ GenerateSanctionsLoop
  \/ GenerateSanctionsReturn
  \/ WriteCsv
  \/ MainCallSanctions
  \/ MainSummary

SpecMain == InitMain /\ [][NextMain]_vars

----------------------------------------------------------------------------
(* What the properties below speak of *)

Range(seq) == { seq[k] : k \in 1..Len(seq) }

Generating == fn \in { "generate_customers", "generate_sanctions" }

\* The call has returned its list.
Returned == Generating /\ pc \in { "returned", "written" }

\* The call is past the anchor's place: in its loop or after it.
Started == Generating /\ pc \in { "loop", "returned", "written" }

\* The anchor's fields as the specification states them.
AnchorName == <<"C","h","r","i","s","t","i","n","a"," ","V","a","r","g","a","s">>
AnchorDob == <<"1","9","9","5","-","0","7","-","2","3">>
AnchorCountry == <<"A","U">>
AnchorProgram == <<"O","F","A","C"," ","S","D","N">>

IsAnchorTriple(r) ==
  r.name = AnchorName /\ r.date_of_birth = AnchorDob /\ r.country = AnchorCountry

IsSubjectAnchor(r) == DOMAIN r = { "name", "date_of_birth", "country" } /\ IsAnchorTriple(r)

IsWatchlistAnchor(r) ==
  /\ DOMAIN r = { "name", "date_of_birth", "country", "program", "aliases" }
  /\ IsAnchorTriple(r)
  /\ r.program = AnchorProgram
  /\ r.aliases = << >>

\* A text of the form YYYY-MM-DD.
IsIsoText(text) ==
  /\ Len(text) = 10
  /\ text[5] = "-" /\ text[8] = "-"
  /\ \A k \in { 1, 2, 3, 4, 6, 7, 9, 10 } : \E d \in 0..9 : text[k] = Digit(d)

DigitOf(c) == CHOOSE d \in 0..9 : Digit(d) = c

\* The << year, month, day >> a text of that form reads as.
ReadIso(text) ==
  << 1000 * DigitOf(text[1]) + 100 * DigitOf(text[2]) + 10 * DigitOf(text[3])
       + DigitOf(text[4]),
     10 * DigitOf(text[6]) + DigitOf(text[7]),
     10 * DigitOf(text[9]) + DigitOf(text[10]) >>

\* The text parses as a calendar date from 1 January of START_YEAR to
\* 31 December of END_YEAR.
DateInBounds(text) ==
  /\ IsIsoText(text)
  /\ LET ymd == ReadIso(text)
     IN  /\ ymd[2] \in 1..12
         /\ ymd[3] \in 1..DaysInMonth(ymd[1], ymd[2])
         /\ START_YEAR <= ymd[1] /\ ymd[1] <= END_YEAR

\* A name of the form "<given> <family>" over the pools: a given name of
\* FIRST_NAMES, one space, a family name of LAST_NAMES.
IsPoolName(text) ==
  \E p \in 1..Len(text) :
    /\ text[p] = " "
    /\ SubSeq(text, 1, p - 1) \in Range(FIRST_NAMES)
    /\ SubSeq(text, p + 1, Len(text)) \in Range(LAST_NAMES)

AliasCount(list) == Cardinality({ k \in 1..Len(list) : list[k].aliases # << >> })

(* A csv reader of the excel dialect, as csv.reader and csv.DictReader     *)
(* parse a file: by it the properties read the files back.                 *)

\* The first position from k on that holds one of the characters of stop,
\* Len(text) + 1 if there is none.
FirstOf(text, k, stop) ==
  CHOOSE j \in k..(Len(text) + 1) :
    /\ j = Len(text) + 1 \/ text[j] \in stop
    /\ \A m \in k..(j - 1) : text[m] \notin stop

\* The first position from k on that holds no line terminator character.
AfterNewlines(text, k) ==
  CHOOSE j \in k..(Len(text) + 1) :
    /\ j = Len(text) + 1 \/ text[j] \notin { CR, LF }
    /\ \A m \in k..(j - 1) : text[m] \in { CR, LF }

QuotesIn(text, from, to) == Cardinality({ m \in from..to : text[m] = QUOTE })

\* The quote that closes the quoted field opened at k, Len(text) + 1 if the
\* field is not closed: the first one that no quote follows and that an even
\* number of quotes precede.
ClosingQuote(text, k) ==
  CHOOSE j \in (k + 1)..(Len(text) + 1) :
    LET closes(m) ==
          /\ text[m] = QUOTE
          /\ QuotesIn(text, k + 1, m - 1) % 2 = 0
          /\ m = Len(text) \/ text[m + 1] # QUOTE
    IN  /\ j = Len(text) + 1 \/ closes(j)
        /\ \A m \in (k + 1)..(j - 1) : ~ closes(m)

\* The text of a quoted field: of each pair of quotes the first is kept.
Undoubled(s) ==
  LET kept == { m \in 1..Len(s) : s[m] # QUOTE \/ QuotesIn(s, 1, m - 1) % 2 = 0 }
  IN  [ n \in 1..Cardinality(kept) |->
          s[CHOOSE m \in kept : Cardinality({ x \in kept : x <= m }) = n] ]

\* The csv reader from the start of a field at position k on: fresh says
\* that the field starts a record, row holds the fields of the record so
\* far, rows the records read.
RECURSIVE CsvParse(_, _, _, _, _)
CsvParse(text, k, fresh, row, rows) ==
  IF k > Len(text)
    THEN IF fresh THEN rows ELSE Append(rows, Append(row, << >>))
  ELSE IF fresh /\ text[k] \in { CR, LF }
    THEN CsvParse(text, AfterNewlines(text, k), TRUE, << >>, Append(rows, << >>))
  ELSE
    LET quoted == text[k] = QUOTE
        close == IF quoted THEN ClosingQuote(text, k) ELSE k
        end == FirstOf(text, IF quoted THEN close + 1 ELSE k, { COMMA, CR, LF })
        field == IF quoted
                   THEN Undoubled(SubSeq(text, k + 1, close - 1))
                          \o SubSeq(text, close + 1, end - 1)
                   ELSE SubSeq(text, k, end - 1)
    IN  IF end > Len(text) THEN Append(rows, Append(row, field))
        ELSE IF text[end] = COMMA
          THEN CsvParse(text, end + 1, FALSE, Append(row, field), rows)
        ELSE CsvParse(text, AfterNewlines(text, end), TRUE, << >>,
                      Append(rows, Append(row, field)))

\* The rows of a file, the empty rows skipped as csv.DictReader skips them.
CsvRead(text) ==
  SelectSeq(CsvParse(text, 1, TRUE, << >>, << >>),
            LAMBDA r : r # << >>)

\* A row read back as a record over fieldnames.
RowToDict(row, fieldnames) ==
  [ f \in { fieldnames[k] : k \in 1..Len(fieldnames) } |->
      row[CHOOSE k \in 1..Len(fieldnames) : fieldnames[k] = f] ]

\* The rows read back from the file written for fn.
RowsOf(f) == CsvRead(files[FileOf(f)].text)

----------------------------------------------------------------------------
(* The properties *)

\* C1: with the anchor included and a count N >= 1, the returned list has
\* exactly N records and its first is the anchor record of its kind.
C1_AnchorFirstWithinCount ==
  (Returned /\ include_christina /\ count >= 1) =>
    /\ Len(DataOf(fn)) = count
    /\ fn = "generate_customers" => IsSubjectAnchor(customers[1])
    /\ fn = "generate_sanctions" => IsWatchlistAnchor(sanctions[1])

C1_Witness ==
  /\ Returned /\ include_christina /\ count = MaxCount
  /\ fn = "generate_sanctions"
  /\ Len(sanctions) = MaxCount
  /\ sanctions[MaxCount].name # AnchorName

\* C2: in the entry point, both lists generated with the anchor, the first
\* record of each carries the triple ("Christina Vargas", "1995-07-23", "AU"),
\* and so does the first row after the header of each file written.
C2_SharedFirstRow ==
  /\ (script = "main" /\ customers # << >>) => IsAnchorTriple(customers[1])
  /\ (script = "main" /\ sanctions # << >>) => IsAnchorTriple(sanctions[1])
  /\ (script = "main" /\ (pc = "done" \/ (pc = "written" /\ fn = "generate_customers"))) =>
       LET rows == RowsOf("generate_customers")
       IN  Len(rows) >= 2 /\ rows[2] = << AnchorName, AnchorDob, AnchorCountry >>
  /\ (script = "main" /\ pc = "done") =>
       LET rows == RowsOf("generate_sanctions")
       IN  Len(rows) >= 2 /\ SubSeq(rows[2], 1, 3) = << AnchorName, AnchorDob, AnchorCountry >>

C2_Witness ==
  /\ script = "main" /\ pc = "done"
  /\ Len(customers) = MainCount /\ Len(sanctions) = MainCount
  /\ customers[1].name = sanctions[1].name
  /\ Len(RowsOf("generate_customers")) = MainCount + 1
  /\ Len(RowsOf("generate_sanctions")) = MainCount + 1

\* C3: with count 0 and the anchor requested, the call fails or returns an
\* empty list: it never returns more than 0 records.
C3_ZeroCountIsEmpty ==
  (Returned /\ include_christina /\ count = 0) => Len(DataOf(fn)) = 0

\* C4: with a negative count the call reports an error at once: it returns
\* no list and produces no record.
C4_NegativeCountRejected ==
  (Generating /\ count < 0) =>
    /\ ~ Returned
    /\ customers = << >> /\ sanctions = << >>

\* C5: every date random_date can return lies from 1 January of start_year
\* to 31 December of end_year, the offset 0 gives the first of these days and
\* the offset span the last; every date_of_birth of a generated list, the
\* anchor's included, lies in these bounds.
C5_DatesInBounds ==
  /\ (fn = "random_date" /\ pc = "returned") =>
       /\ DateInBounds(date)
       /\ random_days = 0 =>
            date = <<"1","9","4","0","-","0","1","-","0","1">>
       /\ random_days = Ymd2Ord(END_YEAR, 12, 31) - Ymd2Ord(START_YEAR, 1, 1) =>
            date = <<"2","0","0","5","-","1","2","-","3","1">>
  /\ \A k \in 1..Len(customers) : DateInBounds(customers[k].date_of_birth)
  /\ \A k \in 1..Len(sanctions) : DateInBounds(sanctions[k].date_of_birth)

C5_Witness ==
  /\ fn = "random_date" /\ pc = "returned"
  /\ random_days > 0
  /\ date = <<"2","0","0","5","-","1","2","-","3","1">>

\* C6: aliases is the empty string or one name "<given> <family>" over the
\* pools; a synthesized record has an alias exactly when its draw of
\* random.random() is below 0.10; the anchor has none.
C6_AliasEmptyOrOneName ==
  /\ \A k \in 1..Len(sanctions) :
       sanctions[k].aliases = << >> \/ IsPoolName(sanctions[k].aliases)
  /\ (fn = "generate_sanctions" /\ pc = "loop" /\ i > 0) =>
       /\ rand \in 0..(RandResolution - 1)
       /\ sanctions[Len(sanctions)].aliases # << >> <=> 10 * rand < RandResolution
  /\ (fn = "generate_sanctions" /\ Started /\ include_christina) =>
       sanctions[1].aliases = << >>

C6_Witness ==
  /\ fn = "generate_sanctions" /\ pc = "loop" /\ i > 0
  /\ 10 * rand < RandResolution
  /\ IsPoolName(sanctions[Len(sanctions)].aliases)
  /\ include_christina

\* C7: the country of every record is one of COUNTRIES and the program of
\* every watchlist record is one of PROGRAMS.
C7_CountryAndProgramInPools ==
  /\ \A k \in 1..Len(customers) : customers[k].country \in Range(COUNTRIES)
  /\ \A k \in 1..Len(sanctions) :
       /\ sanctions[k].country \in Range(COUNTRIES)
       /\ sanctions[k].program \in Range(PROGRAMS)

C7_Witness ==
  /\ Returned /\ fn = "generate_sanctions" /\ include_christina
  /\ Len(sanctions) = 2
  /\ sanctions[2].program # sanctions[1].program
  /\ sanctions[2].country # sanctions[1].country

\* C8: the file written from a returned list reads back as the field names
\* followed by one row per record, in order and field for field; nothing of
\* what the file held before is left.
C8_CsvRoundTrip ==
  (Generating /\ pc = "written") =>
    LET rows == RowsOf(fn)
        fields == FieldsOf(fn)
        data == DataOf(fn)
    IN  /\ files[FileOf(fn)].exists
        /\ Len(rows) = Len(data) + 1
        /\ rows[1] = [ k \in 1..Len(fields) |-> FieldText(fields[k]) ]
        /\ \A k \in 1..Len(data) :
             /\ Len(rows[k + 1]) = Len(fields)
             /\ RowToDict(rows[k + 1], fields) = data[k]

C8_Witness ==
  /\ pc = "written" /\ fn = "generate_sanctions"
  /\ files[CLIENT_FILE].text = STALE_TEXT
  /\ Len(sanctions) = 2
  /\ sanctions[1].aliases = << >>
  /\ sanctions[2].aliases # << >>
  /\ Len(RowsOf(fn)) = 3

\* C9: the anchor, when included, is at index 0 before any record is
\* synthesized and stays there unchanged; the loop only appends at the end;
\* the anchor takes no draw from the random source.
C9_AnchorKeptFirst ==
  /\ [](Started /\ include_christina =>
          /\ DataOf(fn) # << >>
          /\ fn = "generate_customers" => IsSubjectAnchor(customers[1])
          /\ fn = "generate_sanctions" => IsWatchlistAnchor(sanctions[1]))
  /\ [](Generating /\ pc = "loop" /\ i = 0 =>
          /\ draws = 0
          /\ Len(DataOf(fn)) = IF include_christina THEN 1 ELSE 0)
  /\ [][ pc = "loop" =>
           /\ Len(customers') >= Len(customers)
           /\ SubSeq(customers', 1, Len(customers)) = customers
           /\ Len(sanctions') >= Len(sanctions)
           /\ SubSeq(sanctions', 1, Len(sanctions)) = sanctions ]_vars

C9_Witness ==
  /\ Returned /\ include_christina
  /\ fn = "generate_customers"
  /\ Len(customers) = 2
  /\ draws = 4
  /\ customers[2].name # AnchorName

\* C10: without the anchor and a count N >= 0 the returned list has exactly
\* N records, each synthesized from random draws, none injected; subject
\* records carry name, date_of_birth, country and watchlist records these and
\* program, aliases.
C10_NoAnchorExactCount ==
  /\ (Returned /\ ~ include_christina /\ count >= 0) =>
       /\ Len(DataOf(fn)) = count
       /\ fn = "generate_customers" => draws = 4 * count
       /\ fn = "generate_sanctions" => draws = 6 * count + 2 * AliasCount(sanctions)
  /\ (Generating /\ pc = "loop" /\ ~ include_christina) => Len(DataOf(fn)) = i
  /\ \A k \in 1..Len(customers) :
       DOMAIN customers[k] = { "name", "date_of_birth", "country" }
  /\ \A k \in 1..Len(sanctions) :
       DOMAIN sanctions[k] = { "name", "date_of_birth", "country", "program", "aliases" }

C10_Witness ==
  /\ Returned /\ ~ include_christina
  /\ fn = "generate_customers"
  /\ count = MaxCount
  /\ Len(customers) = MaxCount
  /\ customers[1].name # AnchorName

====
